---- MODULE Spec2Model ----
(***************************************************************************)
(* The session-bearing connection engine of conn.go: the session loop      *)
(* (Connect's goroutine: loop, flushRequests, invalidateWatches), the send *)
(* and receive pipelines, the pending-request table, the watch registry    *)
(* and the callers that submit requests through queueRequest.              *)
(*                                                                         *)
(* The server is the environment.  A frame written to an open socket is    *)
(* answered at once: its response is appended to `wire`, the frames the    *)
(* receive pipeline has still to read.  The server's delay cannot be told  *)
(* from the delay of the receive pipeline, so nothing is lost by this.     *)
(***************************************************************************)
EXTENDS Integers, Sequences, FiniteSets, TLC

\* ---------------------------------------------------------------- bounds
MaxOps == 2        \* caller operations of one run
MaxConn == 2       \* successful dials of one run
MaxEvents == 1     \* watch notifications the server pushes in one run
MaxZxid == 2       \* zxid values of response headers: 0..MaxZxid
MaxPings == 1      \* ticks of the ping timer in one run
MaxForeign == 2    \* children of the parent that other clients created
NumServers == 2    \* len(c.servers)

\* ------------------------------------------------------ program constants
eventChanSize == 6
guidChars == 32
sendChanSize == 16
reconnectDelay == 0

Paths == {"/a", "/b"}

UserOps == 1..MaxOps
\* the task started by sendSetWatches during the k-th connection is MaxOps+k
SwOps == (MaxOps + 1)..(MaxOps + MaxConn)
Ops == UserOps \cup SwOps

WatchKinds == {"GetW", "ExistsW", "ChildrenW"}
OpKinds == {"Get", "Close", "SetWatches"} \cup WatchKinds

ErrConnectionClosed == "ErrConnectionClosed"
ErrSessionExpired == "ErrSessionExpired"
ErrNoNode == "ErrNoNode"
ErrWrite == "write error"
ErrOther == "io error"
Nil == "nil"

EventNodeCreated == "EventNodeCreated"
EventNodeDeleted == "EventNodeDeleted"
EventNodeDataChanged == "EventNodeDataChanged"
EventNodeChildrenChanged == "EventNodeChildrenChanged"
EventNotWatching == "EventNotWatching"
EventSession == "EventSession"
ServerEventTypes ==
  {EventNodeCreated, EventNodeDeleted, EventNodeDataChanged,
   EventNodeChildrenChanged, EventSession}

StateDisconnected == "StateDisconnected"
StateConnecting == "StateConnecting"
StateConnected == "StateConnected"
StateHasSession == "StateHasSession"
StateExpired == "StateExpired"

VARIABLES
  \* Conn
  state, conn, sessionId, xid, lastZxid, shouldQuit,
  sendChan, requests, watchers,
  serverIndex,   \* the cursor into c.servers, 0-based
  eventChan,     \* the number of events buffered in c.eventChan
  \* connect(): the cursor at entry
  startIndex,
  \* the sockets c.conn no longer refers to that were never closed
  leaked,
  \* the session loop (Connect's goroutine)
  loopPc, loopErr, nConn,
  \* the pipelines of the current pass
  sendPc, sendReq, recvPc, closeChan, nPings,
  \* the callers: one request record per operation
  opKind, opPath, opPc, opXid, outs, res,
  \* the watch sinks: the events sent to the sink of each operation
  sinkEv,
  \* the server and the socket
  wire, srvSession, nEvents,
  \* the set-watches requests built during the current connection (none or one)
  setWatchesReq,
  \* log.Fatal has ended the process: no task takes another step
  fatal,
  \* history, read by the properties only:
  sessXid,       \* the highest xid assigned since sessionId last changed
  expiredSinks,  \* the registered sinks when the state was set to Expired
  armed,         \* the ExistsW calls the server answered with NoNode
  notified,      \* those whose NodeCreated event the receive pipeline handled
  lostReg,       \* the registry when the last pass was flushed
  flushed,       \* the waiters the last flushRequests delivered to
  passPos,       \* the failed dials of connect() since its entry or last sleep
  \* one call of CreateProtectedEphemeralSequential
  cpPc,          \* "idle", "create", "list", "returned" or "panic"
  cpI,           \* the loop counter i
  cpErr,         \* err, the outcome of the last create request
  cpRet,         \* what the call returned
  \* the server's side of that call
  cpNodes,       \* the children of the parent this call's creates have made
  cpForeign,     \* the children of the parent made by others
  cpCreates      \* the create requests the call has issued (history)

connVars == <<state, conn, sessionId, xid, lastZxid, shouldQuit>>
loopVars == <<loopPc, loopErr, nConn>>
pipeVars == <<sendPc, sendReq, recvPc, closeChan, nPings>>
opVars == <<opKind, opPath, opPc, opXid, outs, res>>
envVars == <<wire, srvSession, nEvents>>
histVars == <<sessXid, expiredSinks, armed, notified, lostReg, flushed>>
dialVars == <<serverIndex, startIndex, passPos>>
createVars == <<cpPc, cpI, cpErr, cpRet, cpNodes, cpForeign, cpCreates>>
vars == <<connVars, sendChan, requests, watchers, loopVars, pipeVars,
          opVars, sinkEv, envVars, setWatchesReq, fatal, histVars,
          dialVars, eventChan, leaked, createVars>>

\* ---------------------------------------------------------------- helpers
NoWatchers == [dataWatchers |-> <<>>, existWatchers |-> <<>>, childWatchers |-> <<>>]

SeqSet(s) == {s[i] : i \in 1..Len(s)}

\* the outcomes sent on r's completion sink that its waiter has not read
Occupied(r) == Len(outs[r]) - (IF res[r] = "none" THEN 0 ELSE 1)

\* req.recvChan <- err : a send on the capacity-1 completion sink
Deliver(o, r, err) == [o EXCEPT ![r] = Append(@, err)]

\* c.requests[x] = r
TablePut(t, x, r) == [y \in DOMAIN t \cup {x} |-> IF y = x THEN r ELSE t[y]]

\* delete(c.requests, x)
TableDel(t, x) == [y \in DOMAIN t \ {x} |-> t[y]]

EmptyTable == [y \in {} |-> 0]

\* a registry entry, kind by kind
KindSeq(wat, kind) ==
  CASE kind = "data" -> wat.dataWatchers
    [] kind = "exist" -> wat.existWatchers
    [] kind = "child" -> wat.childWatchers

\* the sinks the registry holds
RegisteredSinks(w) ==
  UNION {SeqSet(w[p].dataWatchers) \cup SeqSet(w[p].existWatchers)
           \cup SeqSet(w[p].childWatchers) : p \in DOMAIN w}

\* the path under which the registry holds sink s
PathOf(w, s) ==
  CHOOSE p \in DOMAIN w :
    s \in SeqSet(w[p].dataWatchers) \cup SeqSet(w[p].existWatchers)
            \cup SeqSet(w[p].childWatchers)

EmptyRegistry == [p \in {} |-> NoWatchers]

\* ------------------------------------------------------------ setState
\* select { case c.eventChan <- ev: default: } : the event is dropped when
\* the channel is full
Publish(n) == IF n < eventChanSize THEN n + 1 ELSE n

setState(s) ==
  /\ state' = s
  /\ eventChan' = Publish(eventChan)

\* ------------------------------------------------------- flushRequests
\* every waiter of the pending table is sent err, then the table is replaced.
\* A send on a completion sink that still holds an unread outcome blocks.
FlushedOuts(o, t, err) ==
  [r \in DOMAIN o |->
     IF \E x \in DOMAIN t : t[x] = r THEN Append(o[r], err) ELSE o[r]]

\* flushRequests that sends the outcomes and keeps the table
flushRequestsKeepsTable(err) ==
  /\ \A x \in DOMAIN requests : Occupied(requests[x]) = 0
  /\ outs' = FlushedOuts(outs, requests, err)
  /\ requests' = requests

flushRequests(err) ==
  /\ \A x \in DOMAIN requests : Occupied(requests[x]) = 0
  /\ outs' = FlushedOuts(outs, requests, err)
  /\ requests' = EmptyTable

\* --------------------------------------------------- invalidateWatches
NotWatching(path, err) ==
  [Type |-> EventNotWatching, Path |-> path, Err |-> err]

InvalidatedSinks(ev, w, err) ==
  [s \in DOMAIN ev |->
     IF s \in RegisteredSinks(w)
     THEN Append(ev[s], NotWatching(PathOf(w, s), err))
     ELSE ev[s]]

invalidateWatches(err) ==
  /\ sinkEv' = InvalidatedSinks(sinkEv, watchers, err)
  /\ watchers' = EmptyRegistry

\* ------------------------------------------------------ sendSetWatches
\* the paths of the registry that have subscribers of the kind
WatchPaths(w, kind) == {p \in DOMAIN w : Len(KindSeq(w[p], kind)) # 0}

RECURSIVE SumLen(_)
SumLen(ps) ==
  IF ps = {} THEN 0
  ELSE LET p == CHOOSE q \in ps : TRUE IN Len(p) + SumLen(ps \ {p})

\* SetWatchesRequest with the exist watchers listed from the data watchers
SetWatchesRequestDataTwice(w, zxid) ==
  [RelativeZxid |-> zxid,
   DataWatches |-> WatchPaths(w, "data"),
   ExistWatches |-> WatchPaths(w, "data"),
   ChildWatches |-> WatchPaths(w, "child")]

\* the request sendSetWatches builds from the registry
SetWatchesRequest(w, zxid) ==
  [RelativeZxid |-> zxid,
   DataWatches |-> WatchPaths(w, "data"),
   ExistWatches |-> WatchPaths(w, "exist"),
   ChildWatches |-> WatchPaths(w, "child")]

PathLen(req) ==
  SumLen(req.DataWatches) + SumLen(req.ExistWatches) + SumLen(req.ChildWatches)

\* the task that submits the set-watches request of this connection
SwOp == MaxOps + nConn

sendSetWatches ==
  LET req == SetWatchesRequest(watchers, lastZxid) IN
  IF DOMAIN watchers = {} \/ PathLen(req) = 0
  THEN UNCHANGED <<setWatchesReq, opPc>>
  ELSE /\ setWatchesReq' = {req}
       /\ opPc' = [opPc EXCEPT ![SwOp] = "request"]

\* ------------------------------------------------------------- connect
\* entry of connect(): startIndex := c.serverIndex; setState(StateConnecting)
connect ==
  /\ ~fatal
  /\ loopPc = "connect"
  /\ startIndex' = serverIndex
  /\ passPos' = 0
  /\ setState(StateConnecting)
  /\ loopPc' = "dial"
  /\ UNCHANGED <<conn, sessionId, xid, lastZxid, shouldQuit, sendChan,
                 requests, watchers, serverIndex, loopErr, nConn, pipeVars,
                 opVars, sinkEv, envVars, setWatchesReq, fatal, histVars,
                 leaked, createVars>>

\* NextServer that advances the cursor by two
NextServerSkips(i) == (i + 2) % NumServers

\* the server after server i in the rotation
NextServer(i) == (i + 1) % NumServers

\* net.DialTimeout succeeds: c.conn = zkConn; setState(StateConnected)
dial ==
  /\ ~fatal
  /\ UNCHANGED <<dialVars, createVars>>
  /\ leaked' = IF conn \in {"open", "broken"} THEN leaked + 1 ELSE leaked
  /\ loopPc = "dial"
  /\ nConn < MaxConn
  /\ nConn' = nConn + 1
  /\ conn' = "open"
  /\ wire' = <<>>
  /\ setState(StateConnected)
  /\ loopPc' = "authenticate"
  /\ setWatchesReq' = {}
  /\ UNCHANGED <<sessionId, xid, lastZxid, shouldQuit, sendChan, requests,
                 watchers, loopErr, pipeVars, opVars, sinkEv, srvSession,
                 nEvents, fatal,
                 histVars>>

\* net.DialTimeout fails: the cursor moves on, and loopPc is "sleep" when it
\* is back on startIndex
dialFail ==
  /\ ~fatal
  /\ loopPc = "dial"
  /\ serverIndex' = NextServer(serverIndex)
  /\ passPos' = (passPos + 1) % NumServers
  /\ loopPc' = IF NextServer(serverIndex) = startIndex THEN "sleep" ELSE "dial"
  /\ UNCHANGED <<connVars, sendChan, requests, watchers, startIndex, loopErr,
                 nConn, pipeVars, opVars, sinkEv, envVars, setWatchesReq,
                 fatal, histVars, eventChan, leaked, createVars>>

\* time.Sleep(time.Second) has returned
dialSleep ==
  /\ ~fatal
  /\ loopPc = "sleep"
  /\ loopPc' = "dial"
  /\ UNCHANGED <<connVars, sendChan, requests, watchers, loopErr, nConn,
                 pipeVars, opVars, sinkEv, envVars, setWatchesReq, fatal,
                 histVars, dialVars, eventChan, leaked, createVars>>

\* -------------------------------------------------------- authenticate
\* the pipelines of a pass are started once the handshake has returned nil
StartPipelines ==
  /\ sendPc' = "select"
  /\ recvPc' = "read"
  /\ closeChan' = FALSE
  /\ sendReq' = 0
  /\ loopPc' = "run"
  /\ loopErr' = Nil

\* the connect request is written, then sendSetWatches is called
authWrite ==
  /\ ~fatal
  /\ UNCHANGED <<dialVars, eventChan, leaked, createVars>>
  /\ loopPc = "authenticate"
  /\ IF conn = "open"
     THEN /\ sendSetWatches
          /\ loopPc' = "authRead"
          /\ UNCHANGED loopErr
     ELSE /\ loopErr' = ErrOther
          /\ loopPc' = "disconnect"
          /\ UNCHANGED <<setWatchesReq, opPc>>
  /\ UNCHANGED <<connVars, sendChan, requests, watchers, nConn, pipeVars,
                 opKind, opPath, opXid, outs, res, sinkEv, envVars, fatal,
                 histVars>>

\* the session ids the server may answer a handshake with
ServerSessions(sid) ==
  IF sid = 0 THEN {srvSession + 1} ELSE {sid, 0}

\* the connect response is read and decoded
authRead ==
  /\ ~fatal
  /\ UNCHANGED <<dialVars, leaked, createVars>>
  /\ loopPc = "authRead"
  /\ \/ /\ conn # "open"
        /\ loopErr' = ErrOther
        /\ loopPc' = "disconnect"
        /\ UNCHANGED <<state, sessionId, xid, srvSession, pipeVars, sessXid,
                       expiredSinks, lostReg, eventChan>>
     \/ /\ conn = "open"
        /\ \E sid \in ServerSessions(sessionId) :
             IF sid = 0
             THEN /\ sessionId' = 0
                  /\ setState(StateExpired)
                  /\ loopErr' = ErrSessionExpired
                  /\ loopPc' = "invalidate"
                  /\ sessXid' = 0
                  /\ expiredSinks' = RegisteredSinks(watchers)
                  /\ UNCHANGED <<xid, srvSession, pipeVars, lostReg>>
             ELSE /\ srvSession' = sid
                  /\ IF sessionId # sid
                     THEN /\ xid' = 0
                          /\ loopPc' = "authAdopt"
                          /\ UNCHANGED <<state, sessionId, loopErr, pipeVars,
                                         sessXid, expiredSinks, lostReg,
                                         eventChan>>
                     ELSE /\ setState(StateHasSession)
                          /\ StartPipelines
                          /\ lostReg' = EmptyRegistry
                          /\ UNCHANGED <<sessionId, xid, nPings, sessXid,
                                         expiredSinks>>
  /\ UNCHANGED <<conn, lastZxid, shouldQuit, sendChan, requests, watchers,
                 nConn, opVars, sinkEv, wire, nEvents, setWatchesReq, fatal,
                 armed, notified, flushed>>

\* c.sessionId = r.SessionId, after c.xid = 0
authAdopt ==
  /\ ~fatal
  /\ UNCHANGED <<dialVars, leaked, createVars>>
  /\ loopPc = "authAdopt"
  /\ sessionId' = srvSession
  /\ setState(StateHasSession)
  /\ StartPipelines
  /\ UNCHANGED <<conn, xid, lastZxid, shouldQuit, sendChan, requests, watchers,
                 nConn, nPings, opVars, sinkEv, envVars, setWatchesReq, fatal,
                 expiredSinks, armed, notified, flushed>>
  /\ sessXid' = 0
  /\ lostReg' = EmptyRegistry

\* ---------------------------------------------------------------- loop
\* err == ErrSessionExpired: c.invalidateWatches(err)
loopInvalidate ==
  /\ ~fatal
  /\ UNCHANGED <<dialVars, eventChan, leaked, createVars>>
  /\ loopPc = "invalidate"
  /\ invalidateWatches(loopErr)
  /\ loopPc' = "disconnect"
  /\ UNCHANGED <<connVars, sendChan, requests, loopErr, nConn, pipeVars,
                 opVars, envVars, setWatchesReq, fatal,
                 histVars>>

\* <-recvDone: the receive task has closed recvDone; err is what recvLoop
\* returned
loopJoin ==
  /\ ~fatal
  /\ UNCHANGED <<dialVars, eventChan, leaked, createVars>>
  /\ loopPc = "run"
  /\ recvPc = "done"
  /\ loopErr' = ErrOther
  /\ loopPc' = "disconnect"
  /\ sendPc' = "idle"
  /\ recvPc' = "idle"
  /\ UNCHANGED <<connVars, sendChan, requests, watchers, nConn, sendReq,
                 closeChan, nPings, opVars, sinkEv, envVars, setWatchesReq,
                 fatal,
                 histVars>>

\* FlushErr with its test inverted
FlushErrInverted(err) ==
  IF err = ErrSessionExpired THEN ErrConnectionClosed ELSE err

\* the error the loop flushes the pending table with
FlushErr(err) ==
  IF err # ErrSessionExpired THEN ErrConnectionClosed ELSE err

\* c.setState(StateDisconnected) ... c.flushRequests(err)
loopFlush ==
  /\ ~fatal
  /\ UNCHANGED <<dialVars, leaked, createVars>>
  /\ loopPc = "disconnect"
  /\ setState(StateDisconnected)
  /\ flushRequests(FlushErr(loopErr))
  /\ loopErr' = FlushErr(loopErr)
  /\ loopPc' = "gate"
  /\ UNCHANGED <<conn, sessionId, xid, lastZxid, shouldQuit, sendChan,
                 watchers, nConn, pipeVars, opKind, opPath, opPc, opXid, res,
                 sinkEv, envVars, setWatchesReq, fatal,
                 sessXid, armed, notified>>
  /\ flushed' = {requests[x] : x \in DOMAIN requests}
  /\ lostReg' = watchers
  /\ expiredSinks' = {}

\* the select on shouldQuit that ends a pass
loopGate ==
  /\ ~fatal
  /\ UNCHANGED <<dialVars, eventChan, leaked, createVars>>
  /\ loopPc = "gate"
  /\ \/ /\ shouldQuit
        /\ loopPc' = "finalFlush"
     \/ /\ ~shouldQuit \/ reconnectDelay > 0
        /\ loopPc' = "connect"
  /\ UNCHANGED <<connVars, sendChan, requests, watchers, loopErr, nConn,
                 pipeVars, opVars, sinkEv, envVars, setWatchesReq, fatal,
                 sessXid, expiredSinks, armed, notified, lostReg>>
  /\ flushed' = {}

\* Connect's goroutine after loop(): conn.flushRequests(ErrSessionExpired)
finalFlush ==
  /\ ~fatal
  /\ UNCHANGED <<dialVars, eventChan, leaked, createVars>>
  /\ loopPc = "finalFlush"
  /\ flushRequests(ErrSessionExpired)
  /\ loopPc' = "finalInvalidate"
  /\ UNCHANGED <<connVars, sendChan, watchers, loopErr, nConn, pipeVars,
                 opKind, opPath, opPc, opXid, res, sinkEv, envVars,
                 setWatchesReq, fatal,
                 sessXid, expiredSinks, armed, notified, lostReg>>
  /\ flushed' = {requests[x] : x \in DOMAIN requests}

\* Connect's goroutine after loop(): conn.invalidateWatches(ErrSessionExpired)
finalInvalidate ==
  /\ ~fatal
  /\ UNCHANGED <<dialVars, eventChan, leaked, createVars>>
  /\ loopPc = "finalInvalidate"
  /\ invalidateWatches(ErrSessionExpired)
  /\ loopPc' = "done"
  /\ UNCHANGED <<connVars, sendChan, requests, loopErr, nConn, pipeVars,
                 opVars, envVars, setWatchesReq, fatal,
                 histVars>>

\* ------------------------------------------------------------ sendLoop
\* the send task after sendLoop has returned: c.conn.Close(); close(sendDone)
SendReturn ==
  /\ conn' = "closed"
  /\ sendPc' = "done"
  /\ sendReq' = 0

\* the errors a server answers a request of each kind with
ServerErrs(kind) ==
  IF kind \in WatchKinds THEN {Nil, ErrNoNode} ELSE {Nil}

\* the response frame of request r
Response(r, zxid, err) ==
  [Xid |-> opXid[r], Zxid |-> zxid, Err |-> err]

\* case req := <-c.sendChan, up to the end of the critical section on the
\* pending table
sendDequeue ==
  /\ ~fatal
  /\ UNCHANGED <<dialVars, eventChan, leaked, createVars>>
  /\ sendPc = "select"
  /\ sendChan # <<>>
  /\ LET r == Head(sendChan) IN
       /\ sendChan' = Tail(sendChan)
       /\ IF closeChan
          THEN /\ Occupied(r) = 0
               /\ outs' = Deliver(outs, r, ErrConnectionClosed)
               /\ SendReturn
               /\ UNCHANGED requests
          ELSE /\ requests' = TablePut(requests, opXid[r], r)
               /\ sendPc' = "write"
               /\ sendReq' = r
               /\ UNCHANGED <<outs, conn>>
  /\ UNCHANGED <<state, sessionId, xid, lastZxid, shouldQuit, watchers,
                 loopVars, recvPc, closeChan, nPings, opKind, opPath, opPc,
                 opXid, res, sinkEv, envVars, setWatchesReq, fatal,
                 histVars>>

\* conn.Write of the request that was just put in the pending table; the
\* server stamps its response with a zxid of zxids, and closes the connection
\* after it has answered a close request
sendWrite(zxids) ==
  /\ ~fatal
  /\ UNCHANGED <<dialVars, eventChan, leaked, createVars>>
  /\ sendPc = "write"
  /\ IF conn = "open"
     THEN /\ \E z \in zxids, e \in ServerErrs(opKind[sendReq]) :
               /\ wire' = Append(wire, Response(sendReq, z, e))
               /\ armed' = IF opKind[sendReq] = "ExistsW" /\ e = ErrNoNode
                           THEN armed \cup {sendReq} ELSE armed
          /\ conn' = IF opKind[sendReq] = "Close" THEN "broken" ELSE conn
          /\ sendPc' = "select"
          /\ sendReq' = 0
          /\ UNCHANGED outs
     ELSE /\ Occupied(sendReq) = 0
          /\ outs' = Deliver(outs, sendReq, ErrWrite)
          /\ SendReturn
          /\ UNCHANGED <<wire, armed>>
  /\ UNCHANGED <<state, sessionId, xid, lastZxid, shouldQuit, sendChan,
                 requests, watchers, loopVars, recvPc, closeChan, nPings,
                 opKind, opPath, opPc, opXid, res, sinkEv, srvSession,
                 nEvents, setWatchesReq, fatal,
                 sessXid, expiredSinks, notified, lostReg, flushed>>

PingEcho == [Xid |-> -2, Zxid |-> 0, Err |-> Nil]

\* case <-pingTicker.C
sendPing ==
  /\ ~fatal
  /\ UNCHANGED <<dialVars, eventChan, leaked, createVars>>
  /\ sendPc = "select"
  /\ nPings < MaxPings
  /\ nPings' = nPings + 1
  /\ IF conn = "open"
     THEN /\ wire' = Append(wire, PingEcho)
          /\ UNCHANGED <<conn, sendPc, sendReq>>
     ELSE /\ SendReturn
          /\ UNCHANGED wire
  /\ UNCHANGED <<state, sessionId, xid, lastZxid, shouldQuit, sendChan,
                 requests, watchers, loopVars, recvPc, closeChan, opVars,
                 sinkEv, srvSession, nEvents, setWatchesReq, fatal,
                 histVars>>

\* case <-closeChan
sendClose ==
  /\ ~fatal
  /\ UNCHANGED <<dialVars, eventChan, leaked, createVars>>
  /\ sendPc = "select"
  /\ closeChan
  /\ SendReturn
  /\ UNCHANGED <<state, sessionId, xid, lastZxid, shouldQuit, sendChan,
                 requests, watchers, loopVars, recvPc, closeChan, nPings,
                 opVars, sinkEv, envVars, setWatchesReq, fatal,
                 histVars>>

\* ------------------------------------------------------------ recvLoop
\* FiredKinds with NodeCreated handled like NodeDataChanged
FiredKindsCreatedAsChanged(type) ==
  CASE type \in {EventNodeCreated, EventNodeDeleted, EventNodeDataChanged} ->
         {"exist", "data"}
    [] type = EventNodeChildrenChanged -> {"child"}
    [] OTHER -> {}

\* the subscriber sequences a watch event fires and clears
FiredKinds(type) ==
  CASE type = EventNodeCreated -> {"exist"}
    [] type \in {EventNodeDeleted, EventNodeDataChanged} -> {"exist", "data"}
    [] type = EventNodeChildrenChanged -> {"child"}
    [] OTHER -> {}

FiredSinks(wat, type) ==
  UNION {SeqSet(KindSeq(wat, k)) : k \in FiredKinds(type)}

\* ClearedEntry without the truncation of the fired sequences
ClearedEntryKept(wat, type) == wat

\* a registry entry after the fired sequences were truncated
ClearedEntry(wat, type) ==
  [dataWatchers |-> IF "data" \in FiredKinds(type) THEN <<>> ELSE wat.dataWatchers,
   existWatchers |-> IF "exist" \in FiredKinds(type) THEN <<>> ELSE wat.existWatchers,
   childWatchers |-> IF "child" \in FiredKinds(type) THEN <<>> ELSE wat.childWatchers]

WatchEvent(type, path) == [Type |-> type, Path |-> path, Err |-> Nil]

\* the registry after the dispatch of a watch event
DispatchRegistry(w, type, path) ==
  IF path \notin DOMAIN w THEN w
  ELSE LET wat == ClearedEntry(w[path], type) IN
       IF Len(wat.childWatchers) + Len(wat.dataWatchers) + Len(wat.existWatchers) = 0
       THEN [p \in DOMAIN w \ {path} |-> w[p]]
       ELSE [w EXCEPT ![path] = wat]

\* the sinks after the dispatch of a watch event
DispatchSinks(ev, w, type, path) ==
  [s \in DOMAIN ev |->
     IF path \in DOMAIN w /\ s \in FiredSinks(w[path], type)
     THEN Append(ev[s], WatchEvent(type, path))
     ELSE ev[s]]

\* if res.Zxid > 0 { c.lastZxid = res.Zxid }
NextZxid(last, zxid) == IF zxid > 0 THEN zxid ELSE last

\* the receive task after recvLoop has returned: close(closeChan)
RecvReturn ==
  /\ closeChan' = TRUE
  /\ recvPc' = "waitSend"

\* SendDone that does not wait for the send task
SendDoneAlways(sp) == sp \in {"select", "write", "done"}

\* close(sendDone) has happened
SendDone(sp) == sp = "done"

\* the receive task: <-sendDone; close(recvDone)
recvFinish ==
  /\ ~fatal
  /\ recvPc = "waitSend"
  /\ SendDone(sendPc)
  /\ recvPc' = "done"
  /\ UNCHANGED <<connVars, sendChan, requests, watchers, loopVars, sendPc,
                 sendReq, closeChan, nPings, opVars, sinkEv, envVars,
                 setWatchesReq, fatal, histVars, dialVars, eventChan, leaked,
                 createVars>>

\* one frame is read and handled
recvFrame ==
  /\ ~fatal
  /\ UNCHANGED <<dialVars, leaked, createVars>>
  /\ recvPc = "read"
  /\ conn \in {"open", "broken"}
  /\ wire # <<>>
  /\ LET f == Head(wire) IN
       /\ wire' = Tail(wire)
       /\ IF f.Xid = -1
          THEN /\ eventChan' = Publish(eventChan)
               /\ sinkEv' = DispatchSinks(sinkEv, watchers, f.Type, f.Path)
               /\ watchers' = DispatchRegistry(watchers, f.Type, f.Path)
               /\ notified' = notified \cup f.For
               /\ UNCHANGED <<lastZxid, requests, outs, closeChan, recvPc>>
          ELSE IF f.Xid < 0
          THEN UNCHANGED <<lastZxid, requests, outs, closeChan, recvPc,
                           sinkEv, watchers, notified, eventChan>>
          ELSE /\ lastZxid' = NextZxid(lastZxid, f.Zxid)
               /\ UNCHANGED eventChan
               /\ IF f.Xid \in DOMAIN requests
                  THEN LET r == requests[f.Xid] IN
                       /\ requests' = TableDel(requests, f.Xid)
                       /\ Occupied(r) = 0
                       /\ outs' = Deliver(outs, r, f.Err)
                       /\ IF opKind[r] = "Close"
                          THEN RecvReturn
                          ELSE UNCHANGED <<closeChan, recvPc>>
                  ELSE UNCHANGED <<requests, outs, closeChan, recvPc>>
               /\ UNCHANGED <<sinkEv, watchers, notified>>
  /\ UNCHANGED <<state, conn, sessionId, xid, shouldQuit, sendChan, loopVars,
                 sendPc, sendReq, nPings, opKind, opPath, opPc, opXid, res,
                 srvSession, nEvents, setWatchesReq, fatal,
                 sessXid, expiredSinks, armed, lostReg, flushed>>

\* io.ReadFull fails: the socket was closed, or the connection is lost and
\* nothing is left to read
recvError ==
  /\ ~fatal
  /\ UNCHANGED <<dialVars, eventChan, leaked, createVars>>
  /\ recvPc = "read"
  /\ conn = "closed" \/ (conn = "broken" /\ wire = <<>>)
  /\ RecvReturn
  /\ UNCHANGED <<connVars, sendChan, requests, watchers, loopVars, sendPc,
                 sendReq, nPings, opVars, sinkEv, envVars, setWatchesReq,
                 fatal,
                 histVars>>

\* ------------------------------------------------------------- callers
\* Close(): close(c.shouldQuit)
closeSignal(r) ==
  /\ ~fatal
  /\ UNCHANGED <<dialVars, eventChan, leaked, createVars>>
  /\ opKind[r] = "Close"
  /\ opPc[r] = "idle"
  /\ shouldQuit' = TRUE
  /\ opPc' = [opPc EXCEPT ![r] = "request"]
  /\ UNCHANGED <<state, conn, sessionId, xid, lastZxid, sendChan, requests,
                 watchers, loopVars, pipeVars, opKind, opPath, opXid, outs,
                 res, sinkEv, envVars, setWatchesReq, fatal,
                 histVars>>

\* atomic.AddInt32(&c.xid, 1)
nextXid == xid + 1

\* queueRequest: the request record is built with the next xid
queueRequest(r) ==
  /\ ~fatal
  /\ UNCHANGED <<dialVars, eventChan, leaked, createVars>>
  /\ opPc[r] = "request"
  /\ xid' = nextXid
  /\ opXid' = [opXid EXCEPT ![r] = nextXid]
  /\ opPc' = [opPc EXCEPT ![r] = "enqueue"]
  /\ UNCHANGED <<state, conn, sessionId, lastZxid, shouldQuit, sendChan,
                 requests, watchers, loopVars, pipeVars, opKind, opPath, outs,
                 res, sinkEv, envVars, setWatchesReq, fatal,
                 expiredSinks, armed, notified, lostReg, flushed>>
  /\ sessXid' = nextXid

\* queueRequest: c.sendChan <- rq
enqueue(r) ==
  /\ ~fatal
  /\ UNCHANGED <<dialVars, eventChan, leaked, createVars>>
  /\ opPc[r] = "enqueue"
  /\ Len(sendChan) < sendChanSize
  /\ sendChan' = Append(sendChan, r)
  /\ opPc' = [opPc EXCEPT ![r] = "await"]
  /\ UNCHANGED <<connVars, requests, watchers, loopVars, pipeVars, opKind,
                 opPath, opXid, outs, res, sinkEv, envVars, setWatchesReq,
                 fatal,
                 histVars>>

\* what the caller does with the outcome of its request
AfterRequest(kind, err) ==
  CASE kind = "ExistsW" /\ err \in {Nil, ErrNoNode} -> "addWatcher"
    [] kind \in {"GetW", "ChildrenW"} /\ err = Nil -> "addWatcher"
    [] kind = "SetWatches" /\ err # Nil -> "fatal"
    [] OTHER -> "done"

\* request(): <-c.queueRequest(...), and the caller's reaction to the outcome
await(r) ==
  /\ ~fatal
  /\ UNCHANGED <<dialVars, eventChan, leaked, createVars>>
  /\ opPc[r] = "await"
  /\ Len(outs[r]) >= 1
  /\ res' = [res EXCEPT ![r] = outs[r][1]]
  /\ opPc' = [opPc EXCEPT ![r] = AfterRequest(opKind[r], outs[r][1])]
  /\ fatal' = (AfterRequest(opKind[r], outs[r][1]) = "fatal")
  /\ UNCHANGED <<connVars, sendChan, requests, watchers, loopVars, pipeVars,
                 opKind, opPath, opXid, outs, sinkEv, envVars, setWatchesReq,
                 histVars>>

\* Close(): case <-time.After(time.Second)
closeTimeout(r) ==
  /\ ~fatal
  /\ UNCHANGED <<dialVars, eventChan, leaked, createVars>>
  /\ opKind[r] = "Close"
  /\ opPc[r] = "await"
  /\ opPc' = [opPc EXCEPT ![r] = "timeout"]
  /\ UNCHANGED <<connVars, sendChan, requests, watchers, loopVars, pipeVars,
                 opKind, opPath, opXid, outs, res, sinkEv, envVars,
                 setWatchesReq, fatal,
                 histVars>>

\* the kind of watcher a caller registers
WatcherType(kind, err) ==
  CASE kind = "ChildrenW" -> "child"
    [] kind = "GetW" -> "data"
    [] kind = "ExistsW" -> IF err = ErrNoNode THEN "exist" ELSE "data"

\* the registry after addWatcher(path, wt), s being the new sink
AddedWatcher(w, path, wt, s) ==
  LET wat == IF path \in DOMAIN w THEN w[path] ELSE NoWatchers
      new == [dataWatchers |->
                IF wt = "data" THEN Append(wat.dataWatchers, s) ELSE wat.dataWatchers,
              existWatchers |->
                IF wt = "exist" THEN Append(wat.existWatchers, s) ELSE wat.existWatchers,
              childWatchers |->
                IF wt = "child" THEN Append(wat.childWatchers, s) ELSE wat.childWatchers]
  IN [p \in DOMAIN w \cup {path} |-> IF p = path THEN new ELSE w[p]]

addWatcher(r) ==
  /\ ~fatal
  /\ UNCHANGED <<dialVars, eventChan, leaked, createVars>>
  /\ opPc[r] = "addWatcher"
  /\ watchers' = AddedWatcher(watchers, opPath[r], WatcherType(opKind[r], res[r]), r)
  /\ opPc' = [opPc EXCEPT ![r] = "done"]
  /\ UNCHANGED <<connVars, sendChan, requests, loopVars, pipeVars, opKind,
                 opPath, opXid, outs, res, sinkEv, envVars, setWatchesReq,
                 fatal,
                 histVars>>

\* ------------------------------------ CreateProtectedEphemeralSequential
\* strings are sequences of characters
protectedPrefix == <<"_", "c", "_">>

\* fmt.Sprintf("%x", guid): guidChars hexadecimal digits, here all equal
Hex(d) == [i \in 1..guidChars |-> d]

\* the guid of this call, and the guid of a call of another client
guidStr == Hex("a")
otherGuid == Hex("b")

\* the arguments: path is rootPath + "/" + baseName
rootPath == <<"/", "p">>
baseName == <<"n">>

\* parts[len(parts)-1] = protectedPrefix + guidStr + "-" + parts[len(parts)-1]
ProtectedName(guid, base) == protectedPrefix \o guid \o <<"-">> \o base

protectedPath == rootPath \o <<"/">> \o ProtectedName(guidStr, baseName)

\* the child the server makes for the k-th create of a sequential node
SequentialChild(name, k) == name \o <<<<"0", "1", "2", "3">>[k + 1]>>

\* strings.Split(p, "/")[len-1]: what follows the last "/" of p
RECURSIVE LastPart(_)
LastPart(p) ==
  IF \A i \in 1..Len(p) : p[i] # "/" THEN p
  ELSE LastPart(Tail(p))

\* strings.HasPrefix(pth, protectedPrefix)
HasPrefix(pth, pre) ==
  Len(pth) >= Len(pre) /\ SubSeq(pth, 1, Len(pre)) = pre

\* the children other clients may have made under the parent
ForeignChildren ==
  {<<"x">>,
   protectedPrefix \o <<"x">>,
   SequentialChild(ProtectedName(otherGuid, baseName), 0)}

\* the orders in which the server may list the children S
Listings(S) ==
  {q \in [1..Cardinality(S) -> S] :
     \A i, j \in 1..Cardinality(S) : q[i] = q[j] => i = j}

\* the search of the listing from its k-th child on: "found" with the path
\* returned for the first child that carries the marker and this call's
\* guid, "panic" when the slice
\* pth[len(protectedPrefix) : len(protectedPrefix)+32] is out of range,
\* "none" when the listing is exhausted
RECURSIVE Search(_, _)
Search(children, k) ==
  IF k > Len(children) THEN [is |-> "none", path |-> <<>>]
  ELSE LET pth == LastPart(children[k]) IN
       IF HasPrefix(pth, protectedPrefix)
       THEN IF Len(pth) < Len(protectedPrefix) + guidChars
            THEN [is |-> "panic", path |-> <<>>]
            ELSE IF SubSeq(pth, Len(protectedPrefix) + 1,
                           Len(protectedPrefix) + guidChars) = guidStr
                 THEN [is |-> "found", path |-> rootPath \o <<"/">> \o children[k]]
                 ELSE Search(children, k + 1)
       ELSE Search(children, k + 1)

\* the outcomes of a create request
CreateErrs == {Nil, ErrSessionExpired, ErrConnectionClosed, ErrNoNode}

\* no call of CreateProtectedEphemeralSequential is under way
CreateIdle ==
  /\ cpPc = "idle"
  /\ cpI = 0
  /\ cpErr = Nil
  /\ cpRet = [path |-> <<>>, err |-> Nil]
  /\ cpNodes = {}
  /\ cpForeign = {}
  /\ cpCreates = 0

\* return path, err
cpReturn(path, err) ==
  /\ cpRet' = [path |-> path, err |-> err]
  /\ cpPc' = "returned"

\* i++ and the test i < 3; after the loop: return "", err
cpAgain(err) ==
  IF cpI + 1 < 3
  THEN /\ cpPc' = "create"
       /\ UNCHANGED cpRet
  ELSE cpReturn(<<>>, err)

\* err = c.request(opCreate, ...) and the switch on err.  A create that is
\* answered nil has made its node; one that ends with ErrConnectionClosed
\* has made it or not; the nodes of an expired session are gone.
cpCreate ==
  /\ cpPc = "create"
  /\ cpCreates' = cpCreates + 1
  /\ \E err \in CreateErrs, made \in BOOLEAN :
       LET child == SequentialChild(ProtectedName(guidStr, baseName), cpI) IN
       /\ (err = Nil) => made
       /\ (err \notin {Nil, ErrConnectionClosed}) => ~made
       /\ cpErr' = err
       /\ cpNodes' = IF err = ErrSessionExpired THEN {}
                     ELSE IF made THEN cpNodes \cup {child} ELSE cpNodes
       /\ CASE err = ErrSessionExpired ->
                 /\ cpAgain(err)
                 /\ cpI' = cpI + 1
            [] err = ErrConnectionClosed ->
                 /\ cpPc' = "list"
                 /\ UNCHANGED <<cpI, cpRet>>
            [] err = Nil ->
                 /\ cpReturn(rootPath \o <<"/">> \o child, Nil)
                 /\ UNCHANGED cpI
            [] OTHER ->
                 /\ cpReturn(<<>>, err)
                 /\ UNCHANGED cpI
  /\ UNCHANGED cpForeign
  /\ UNCHANGED <<connVars, sendChan, requests, watchers, loopVars, pipeVars,
                 opVars, sinkEv, envVars, setWatchesReq, fatal, histVars,
                 dialVars, eventChan, leaked>>

\* children, _, err := c.Children(rootPath) and the search of the listing
cpList ==
  /\ cpPc = "list"
  /\ \/ /\ cpReturn(<<>>, ErrConnectionClosed)
        /\ UNCHANGED cpI
     \/ \E children \in Listings(cpForeign \cup cpNodes) :
          LET found == Search(children, 1) IN
          CASE found.is = "panic" ->
                 /\ cpPc' = "panic"
                 /\ UNCHANGED <<cpI, cpRet>>
            [] found.is = "none" ->
                 /\ cpAgain(cpErr)
                 /\ cpI' = cpI + 1
            [] OTHER ->
                 /\ cpReturn(found.path, Nil)
                 /\ UNCHANGED cpI
  /\ UNCHANGED <<cpErr, cpNodes, cpForeign, cpCreates>>
  /\ UNCHANGED <<connVars, sendChan, requests, watchers, loopVars, pipeVars,
                 opVars, sinkEv, envVars, setWatchesReq, fatal, histVars,
                 dialVars, eventChan, leaked>>

\* --------------------------------------------------------- environment
\* the TCP connection is lost
connLoss ==
  /\ ~fatal
  /\ UNCHANGED <<dialVars, eventChan, leaked, createVars>>
  /\ conn = "open"
  /\ conn' = "broken"
  /\ wire' = <<>>
  /\ UNCHANGED <<state, sessionId, xid, lastZxid, shouldQuit, sendChan,
                 requests, watchers, loopVars, pipeVars, opVars, sinkEv,
                 srvSession, nEvents, setWatchesReq, fatal,
                 histVars>>

\* the server pushes a watch event; For names the ExistsW calls whose watch
\* a NodeCreated event discharges (history, the client does not read it)
serverEvent ==
  /\ ~fatal
  /\ UNCHANGED <<dialVars, eventChan, leaked, createVars>>
  /\ conn = "open"
  /\ loopPc = "run"
  /\ nEvents < MaxEvents
  /\ nEvents' = nEvents + 1
  /\ \E type \in ServerEventTypes, path \in Paths :
       LET for == IF type = EventNodeCreated
                  THEN {r \in armed : opPath[r] = path} ELSE {}
       IN /\ wire' = Append(wire, [Xid |-> -1, Zxid |-> 0, Err |-> Nil,
                                   Type |-> type, Path |-> path, For |-> for])
          /\ armed' = armed \ for
  /\ UNCHANGED <<connVars, sendChan, requests, watchers, loopVars, pipeVars,
                 opVars, sinkEv, srvSession, setWatchesReq, fatal,
                 sessXid, expiredSinks, notified, lostReg, flushed>>

\* ------------------------------------------------------- specification
\* the connection object after Connect, the callers' operations being kind
\* and path, once other callers have pushed the requests of queue, which
\* took the first xids, and wait for their outcomes
InitConn(kind, path, queue) ==
  /\ state = StateDisconnected
  /\ conn = "none"
  /\ sessionId = 0
  /\ xid = Len(queue)
  /\ lastZxid = 0
  /\ shouldQuit = FALSE
  /\ sendChan = queue
  /\ requests = EmptyTable
  /\ watchers = EmptyRegistry
  /\ loopPc = "connect"
  /\ loopErr = Nil
  /\ nConn = 0
  /\ sendPc = "idle"
  /\ sendReq = 0
  /\ recvPc = "idle"
  /\ closeChan = FALSE
  /\ nPings = 0
  /\ opKind = [r \in Ops |-> IF r \in UserOps THEN kind[r] ELSE "SetWatches"]
  /\ opPath = [r \in Ops |-> IF r \in UserOps THEN path[r] ELSE ""]
  /\ opPc = [r \in Ops |->
               IF r \in UserOps /\ kind[r] # "Close" THEN "request" ELSE "idle"]
  /\ opXid = [r \in Ops |-> 0]
  /\ outs = [r \in Ops |-> <<>>]
  /\ res = [r \in Ops |-> "none"]
  /\ sinkEv = [r \in Ops |-> <<>>]
  /\ wire = <<>>
  /\ srvSession = 0
  /\ nEvents = 0
  /\ setWatchesReq = {}
  /\ fatal = FALSE
  /\ sessXid = Len(queue)
  /\ expiredSinks = {}
  /\ armed = {}
  /\ notified = {}
  /\ lostReg = EmptyRegistry
  /\ flushed = {}
  /\ serverIndex = 0
  /\ startIndex = 0
  /\ passPos = 0
  /\ eventChan = 0
  /\ leaked = 0

InitQueue(kind, path, queue) ==
  /\ InitConn(kind, path, queue)
  /\ CreateIdle

\* the state after Connect, nothing being queued
InitWith(kind, path) == InitQueue(kind, path, <<>>)

\* the session loop, the pipelines and the callers' submissions
Engine(zxids) ==
  \/ connect
  \/ dial
  \/ authWrite
  \/ authRead
  \/ authAdopt
  \/ loopInvalidate
  \/ loopJoin
  \/ loopFlush
  \/ loopGate
  \/ finalFlush
  \/ finalInvalidate
  \/ sendDequeue
  \/ sendWrite(zxids)
  \/ sendClose
  \/ recvFrame
  \/ recvError
  \/ recvFinish
  \/ connLoss
  \/ \E r \in Ops : closeSignal(r)
  \/ \E r \in Ops : queueRequest(r)
  \/ \E r \in Ops : enqueue(r)
  \/ \E r \in Ops : await(r)
  \/ \E r \in Ops : closeTimeout(r)

\* Spec: callers that submit plain requests and may call Close(), a server
\* that stamps its responses with any zxid, the ping timer
Init ==
  \E last \in {"Get", "Close"} :
    InitWith([r \in UserOps |-> IF r = MaxOps THEN last ELSE "Get"],
             [r \in UserOps |-> ""])

Next ==
  \/ Engine(0..MaxZxid)
  \/ sendPing

Spec == Init /\ [][Next]_vars

\* SpecWatch: callers of ExistsW and ChildrenW, one of which may call Close()
\* instead, and a server that pushes watch events
WatchOps ==
  {<<"ExistsW", "/a">>, <<"ChildrenW", "/b">>, <<"Close", "">>}

InitWatch ==
  \E last \in WatchOps :
    InitWith([r \in UserOps |-> IF r = MaxOps THEN last[1] ELSE "ExistsW"],
             [r \in UserOps |-> IF r = MaxOps THEN last[2] ELSE "/a"])

NextWatch ==
  \/ Engine({1})
  \/ serverEvent
  \/ \E r \in Ops : addWatcher(r)

SpecWatch == InitWatch /\ [][NextWatch]_vars

\* SpecDispatch: the dispatch of one watch event by the receive pipeline,
\* from every registry the callers of a session can have built: each caller
\* has completed and holds a sink under some path and kind, or holds none
Slots == {<<p, k>> : p \in Paths, k \in {"data", "exist", "child"}}

RECURSIVE RegistryOf(_, _)
RegistryOf(slot, n) ==
  IF n = 0 THEN EmptyRegistry
  ELSE IF slot[n] \in Slots
       THEN AddedWatcher(RegistryOf(slot, n - 1), slot[n][1], slot[n][2], n)
       ELSE RegistryOf(slot, n - 1)

SlotKind(sl) ==
  CASE sl \notin Slots -> "Get"
    [] sl[2] = "data" -> "GetW"
    [] sl[2] = "exist" -> "ExistsW"
    [] sl[2] = "child" -> "ChildrenW"

InitDispatch ==
  \E slot \in [UserOps -> Slots \cup {<<>>}] :
    /\ state = StateHasSession
    /\ conn = "open"
    /\ sessionId = 1
    /\ xid = MaxOps
    /\ lastZxid = 1
    /\ shouldQuit = FALSE
    /\ sendChan = <<>>
    /\ requests = EmptyTable
    /\ watchers = RegistryOf(slot, MaxOps)
    /\ loopPc = "run"
    /\ loopErr = Nil
    /\ nConn = 1
    /\ sendPc = "select"
    /\ sendReq = 0
    /\ recvPc = "read"
    /\ closeChan = FALSE
    /\ nPings = 0
    /\ opKind = [r \in Ops |-> IF r \in UserOps THEN SlotKind(slot[r]) ELSE "SetWatches"]
    /\ opPath = [r \in Ops |-> IF r \in UserOps /\ slot[r] \in Slots THEN slot[r][1] ELSE ""]
    /\ opPc = [r \in Ops |-> IF r \in UserOps THEN "done" ELSE "idle"]
    /\ opXid = [r \in Ops |-> IF r \in UserOps THEN r ELSE 0]
    /\ res = [r \in Ops |->
                IF r \notin UserOps THEN "none"
                ELSE IF slot[r] \in Slots /\ slot[r][2] = "exist" THEN ErrNoNode
                ELSE Nil]
    /\ outs = [r \in Ops |->
                 IF r \notin UserOps THEN <<>>
                 ELSE IF slot[r] \in Slots /\ slot[r][2] = "exist" THEN <<ErrNoNode>>
                 ELSE <<Nil>>]
    /\ sinkEv = [r \in Ops |-> <<>>]
    /\ wire = <<>>
    /\ srvSession = 1
    /\ nEvents = 0
    /\ setWatchesReq = {}
    /\ fatal = FALSE
    /\ sessXid = MaxOps
    /\ expiredSinks = {}
    /\ armed = {r \in UserOps : slot[r] \in Slots /\ slot[r][2] = "exist"}
    /\ notified = {}
    /\ lostReg = EmptyRegistry
    /\ flushed = {}
    /\ serverIndex = 0
    /\ startIndex = 0
    /\ passPos = 0
    /\ eventChan \in {0, eventChanSize}
    /\ leaked = 0
    /\ CreateIdle

\* the application receives from the event channel
drainEvent ==
  /\ ~fatal
  /\ eventChan > 0
  /\ eventChan' = eventChan - 1
  /\ UNCHANGED <<connVars, sendChan, requests, watchers, loopVars, pipeVars,
                 opVars, sinkEv, envVars, setWatchesReq, fatal, histVars,
                 dialVars, leaked, createVars>>

NextDispatch ==
  \/ serverEvent
  \/ recvFrame
  \/ drainEvent

SpecDispatch == InitDispatch /\ [][NextDispatch]_vars

\* SpecDial: a caller of Get and a caller of Close(), servers that accept or
\* refuse the dial
InitDial ==
  InitWith([r \in UserOps |-> IF r = MaxOps THEN "Close" ELSE "Get"],
           [r \in UserOps |-> ""])

NextDial ==
  \/ Engine({0})
  \/ dialFail
  \/ dialSleep

SpecDial == InitDial /\ [][NextDial]_vars

\* every task that can take a step takes one; a dial attempt ends, with
\* success or failure as the servers decide; the timer of Close() fires.
\* The loss of a connection and the call of Close() are not forced.
FairDial ==
  /\ SpecDial
  /\ WF_vars(connect) /\ WF_vars(dial \/ dialFail) /\ WF_vars(dialSleep)
  /\ WF_vars(authWrite) /\ WF_vars(authRead) /\ WF_vars(authAdopt)
  /\ WF_vars(loopInvalidate) /\ WF_vars(loopJoin) /\ WF_vars(loopFlush)
  /\ WF_vars(loopGate) /\ WF_vars(finalFlush) /\ WF_vars(finalInvalidate)
  /\ WF_vars(sendDequeue) /\ WF_vars(sendWrite({0})) /\ WF_vars(sendClose)
  /\ WF_vars(recvFrame) /\ WF_vars(recvError) /\ WF_vars(recvFinish)
  /\ \A r \in Ops :
       /\ WF_vars(queueRequest(r)) /\ WF_vars(enqueue(r))
       /\ WF_vars(await(r)) /\ WF_vars(closeTimeout(r))

\* SpecFull: the send queue holds the requests of other callers, all of them
\* or all but a few, and every server refuses the dial: no send pipeline runs
Waiting(k) == [i \in 1..k |-> MaxOps + MaxConn + i]

InitFull ==
  \E k \in (sendChanSize - MaxOps)..sendChanSize :
    InitQueue([r \in UserOps |-> IF r = MaxOps THEN "Close" ELSE "Get"],
              [r \in UserOps |-> ""], Waiting(k))

NextFull ==
  \/ connect
  \/ dialFail
  \/ dialSleep
  \/ \E r \in Ops : closeSignal(r)
  \/ \E r \in Ops : queueRequest(r)
  \/ \E r \in Ops : enqueue(r)
  \/ \E r \in Ops : closeTimeout(r)

SpecFull == InitFull /\ [][NextFull]_vars

FairFull ==
  /\ SpecFull
  /\ WF_vars(connect) /\ WF_vars(dialFail) /\ WF_vars(dialSleep)
  /\ \A r \in Ops :
       /\ WF_vars(queueRequest(r)) /\ WF_vars(enqueue(r))
       /\ WF_vars(closeTimeout(r))

\* SpecCreate: one call of CreateProtectedEphemeralSequential, under a parent
\* that holds any children of other clients
InitCreate ==
  /\ InitConn([r \in UserOps |-> "Get"], [r \in UserOps |-> ""], <<>>)
  /\ cpPc = "create"
  /\ cpI = 0
  /\ cpErr = Nil
  /\ cpRet = [path |-> <<>>, err |-> Nil]
  /\ cpNodes = {}
  /\ cpForeign \in {S \in SUBSET ForeignChildren : Cardinality(S) <= MaxForeign}
  /\ cpCreates = 0

NextCreate ==
  \/ cpCreate
  \/ cpList

SpecCreate == InitCreate /\ [][NextCreate]_vars

\* ------------------------------------------------------------ properties
Last(q) == q[Len(q)]

\* the requests that were pushed on the send queue
Submitted == {r \in Ops : opPc[r] \in {"await", "timeout", "addWatcher", "done", "fatal"}}

\* C1: at most one outcome is ever sent on the completion sink of a request,
\* whichever way the request ends (response, write failure, close-signal
\* check, flush).
C1_AtMostOneOutcome == \A r \in Ops : Len(outs[r]) <= 1

\* C2: every request that was pushed on the send queue receives an outcome.
\* Nothing delivers an outcome once Connect's goroutine has ended, so every
\* request submitted by then has received its outcome when it ends.
C2_EveryRequestAnswered ==
  [][finalInvalidate => \A r \in Submitted : Len(outs'[r]) >= 1]_vars

\* C8: lastZxid never decreases: a response frame with xid >= 0 and zxid > 0
\* leaves lastZxid >= that zxid and >= its value before; every other frame
\* leaves it unchanged.
C8_LastZxidMonotonic ==
  [][/\ lastZxid' >= lastZxid
     /\ recvFrame =>
          LET f == Head(wire) IN
          IF f.Xid >= 0 /\ f.Zxid > 0
          THEN lastZxid' >= f.Zxid /\ lastZxid' >= lastZxid
          ELSE lastZxid' = lastZxid]_vars

\* C9: the xids assigned while sessionId keeps its value are strictly
\* increasing, and the first xid assigned under a sessionId the server has
\* just handed out is 1.
C9_XidsIncreaseFromOne ==
  [][\A r \in Ops :
       queueRequest(r) =>
         /\ xid' > sessXid
         /\ (sessXid = 0 /\ sessionId # 0) => xid' = 1]_vars

\* C3: when the session loop sets the state to Disconnected after a handshake
\* that set it to Expired, the watch registry is empty and every sink that
\* was registered at the expiry has received exactly one event, NotWatching
\* with ErrSessionExpired.
C3_ExpiryEmptiesRegistry ==
  [][(loopFlush /\ state = StateExpired) =>
       /\ watchers' = EmptyRegistry
       /\ \A s \in expiredSinks :
            sinkEv'[s] = <<NotWatching(opPath[s], ErrSessionExpired)>>]_vars

\* C4: a watch sink is sent at most one event in all, and a sink that has
\* been sent an event is no longer in the registry.
C4_SinkFiresOnce ==
  /\ \A s \in Ops : Len(sinkEv[s]) <= 1
  /\ \A s \in RegisteredSinks(watchers) : sinkEv[s] = <<>>

\* a sink fired by watch dispatch, after the final invalidateWatches
C4_Witness ==
  /\ loopPc = "done"
  /\ \E s \in Ops : Len(sinkEv[s]) = 1 /\ sinkEv[s][1].Type = EventNodeCreated

\* C5: ExistsW returned (false, nil) with its sink, and the receive pipeline
\* has handled the NodeCreated event of the watch the server armed for it:
\* the sink has received exactly that one event.
C5_ExistsWSeesCreate ==
  \A r \in Ops :
    (opKind[r] = "ExistsW" /\ opPc[r] = "done" /\ res[r] = ErrNoNode
       /\ r \in notified)
    => sinkEv[r] = <<WatchEvent(EventNodeCreated, opPath[r])>>

\* C6: when the handshake after a connection loss returns the sessionId the
\* client presented, a set-watches request has been issued for this
\* connection and it names every path the registry held at the loss, under
\* each kind the path had subscribers of; it carries lastZxid; and no
\* request is issued by a sendSetWatches that finds the registry empty.
C6_SetWatchesRestores ==
  [][/\ (authRead /\ sessionId # 0 /\ sessionId' = sessionId /\ loopPc' = "run") =>
          /\ \A p \in DOMAIN lostReg :
               \E req \in setWatchesReq :
                 /\ Len(lostReg[p].dataWatchers) # 0 => p \in req.DataWatches
                 /\ Len(lostReg[p].existWatchers) # 0 => p \in req.ExistWatches
                 /\ Len(lostReg[p].childWatchers) # 0 => p \in req.ChildWatches
          /\ \A req \in setWatchesReq :
               /\ req.RelativeZxid = lastZxid
               /\ opPc[SwOp] # "idle"
     /\ (authWrite /\ conn = "open" /\ watchers = EmptyRegistry) =>
          /\ setWatchesReq' = {}
          /\ opPc'[SwOp'] = "idle"]_vars

\* a reconnect in the same session with a set-watches request under way
C6_Witness ==
  /\ loopPc = "run"
  /\ nConn >= 2
  /\ sessionId # 0
  /\ \E req \in setWatchesReq : req.ExistWatches # {}
  /\ opPc[SwOp] \in {"await", "done"}

\* the subscriber sequences C7 says each event type fires and clears
C7_Clears(type) ==
  IF type = EventNodeCreated THEN {"exist"}
  ELSE IF type \in {EventNodeDeleted, EventNodeDataChanged} THEN {"exist", "data"}
  ELSE IF type = EventNodeChildrenChanged THEN {"child"}
  ELSE {}

\* C7: a watch event on a path of the registry fires and clears exactly the
\* sequences of its type: every sink of a cleared sequence is sent the event
\* once, every other sink, sequence and path is unchanged, and the path is
\* removed exactly when its three sequences are empty afterwards.
C7_DispatchClearsExactly ==
  [][(recvFrame /\ Head(wire).Xid = -1) =>
       LET f == Head(wire)
           p == f.Path
           kinds == {"data", "exist", "child"}
           fired == IF p \in DOMAIN watchers
                    THEN UNION {SeqSet(KindSeq(watchers[p], k)) : k \in C7_Clears(f.Type)}
                    ELSE {}
           left == IF p \in DOMAIN watchers
                   THEN {k \in kinds \ C7_Clears(f.Type) : KindSeq(watchers[p], k) # <<>>}
                   ELSE {}
       IN /\ \A s \in Ops :
               sinkEv'[s] = IF s \in fired
                            THEN Append(sinkEv[s], WatchEvent(f.Type, p))
                            ELSE sinkEv[s]
          /\ DOMAIN watchers' = IF left = {} THEN DOMAIN watchers \ {p} ELSE DOMAIN watchers
          /\ \A q \in DOMAIN watchers' \ {p} : watchers'[q] = watchers[q]
          /\ p \in DOMAIN watchers' =>
               \A k \in kinds :
                 KindSeq(watchers'[p], k) =
                   IF k \in C7_Clears(f.Type) THEN <<>> ELSE KindSeq(watchers[p], k)]_vars

\* NodeCreated has fired an exist watcher and left a data watcher of the
\* same path in the registry
C7_Witness ==
  \E s, t \in UserOps :
    /\ sinkEv[s] = <<WatchEvent(EventNodeCreated, opPath[s])>>
    /\ opPath[t] = opPath[s]
    /\ opPath[s] \in DOMAIN watchers
    /\ watchers[opPath[s]].dataWatchers = <<t>>
    /\ watchers[opPath[s]].existWatchers = <<>>

\* C10: an outcome ErrSessionExpired is sent only by the flush of a pass
\* whose handshake set the state to Expired, and the flush of every other
\* pass sends ErrConnectionClosed to each waiter of the pending table.
C10_ExpiredOnlyAfterExpiry ==
  [][/\ \A r \in Ops :
          (outs'[r] # outs[r] /\ Last(outs'[r]) = ErrSessionExpired)
          => (loopFlush /\ state = StateExpired)
     /\ (loopFlush /\ state # StateExpired) =>
          \A x \in DOMAIN requests :
            outs'[requests[x]] = Append(outs[requests[x]], ErrConnectionClosed)]_vars

\* the flush of a pass whose handshake succeeded has answered a waiter
C10_Witness ==
  /\ loopPc = "gate"
  /\ sessionId # 0
  /\ \E r \in flushed : Last(outs[r]) = ErrConnectionClosed

\* C11: once Close() has signalled shouldQuit it returns: its close request
\* completes or its deadline fires, also when no send pipeline is running and
\* the send queue is full.
C11_CloseReturns ==
  \A r \in UserOps :
    (opKind[r] = "Close" /\ opPc[r] = "request")
      ~> (opPc[r] \in {"done", "timeout"})

\* C12: once Close() has signalled shouldQuit, Connect's goroutine ends: the
\* session loop returns and the final flushRequests and invalidateWatches
\* are performed, wherever the loop was.
C12_QuitTerminatesLoop == shouldQuit ~> (loopPc = "done")

\* C13: no delivery waits for a reader.  The event channel never holds more
\* than its capacity; when the session loop is about to flush the pending
\* table, every completion sink of the table has room; a response the
\* receive pipeline is about to deliver finds room; a sink that a watch
\* event or an invalidation is about to fire is empty.
C13_DeliveryFindsRoom ==
  /\ eventChan <= eventChanSize
  /\ loopPc \in {"disconnect", "finalFlush"} =>
       \A x \in DOMAIN requests : Occupied(requests[x]) = 0
  /\ (recvPc = "read" /\ wire # <<>> /\ Head(wire).Xid \in DOMAIN requests) =>
       Occupied(requests[Head(wire).Xid]) = 0
  /\ \A s \in RegisteredSinks(watchers) : sinkEv[s] = <<>>

\* C14: within one call of connect, the k-th attempt since the entry goes to
\* server startIndex + k modulo the number of servers and a failed attempt
\* advances the cursor by one; the sleep follows a failed attempt exactly when
\* that attempt completes a pass of NumServers failures, and it ends with the
\* cursor back on startIndex; a successful dial leaves the cursor where it is
\* and takes the state from Connecting to Connected.
C14_RoundRobin ==
  [][/\ dialFail =>
          /\ serverIndex = (startIndex + passPos) % NumServers
          /\ serverIndex' = (serverIndex + 1) % NumServers
          /\ (loopPc' = "sleep") <=> (passPos' = 0)
     /\ dial =>
          /\ serverIndex = (startIndex + passPos) % NumServers
          /\ serverIndex' = serverIndex
          /\ state = StateConnecting /\ state' = StateConnected
     /\ dialSleep =>
          /\ passPos = 0 /\ serverIndex = startIndex
          /\ loopPc' = "dial"
     /\ (loopPc' = "sleep" /\ loopPc # "sleep") => dialFail]_vars

\* a call of connect that was entered with the cursor on the second server
\* has failed on every server and sleeps
C14_Witness ==
  /\ loopPc = "sleep"
  /\ startIndex = 1
  /\ nConn >= 1

\* C15: when the session loop gets past <-recvDone, the receive pipeline and
\* the send pipeline have returned and the socket is closed; the pending
\* table is changed by a pipeline only while the loop waits for recvDone, and
\* no pipeline can take a step when flushRequests runs.
C15_FlushAfterPipelines ==
  [][/\ loopJoin =>
          /\ sendPc = "done" /\ recvPc = "done"
          /\ closeChan
          /\ conn = "closed"
     /\ (requests' # requests /\ ~loopFlush /\ ~finalFlush) => loopPc = "run"
     /\ (loopFlush \/ finalFlush) =>
          /\ sendPc \notin {"select", "write"}
          /\ recvPc \notin {"read", "waitSend"}]_vars

\* both pipelines have returned and the loop is about to flush a request
\* that was in flight
C15_Witness ==
  /\ loopPc = "disconnect"
  /\ sendPc = "idle" /\ recvPc = "idle"
  /\ conn = "closed"
  /\ requests # EmptyTable

\* C16: the pending table is empty whenever no send pipeline is running:
\* from the end of flushRequests to the start of the next pipelines, while
\* dialing and handshaking, and after the loop has returned.  A send
\* pipeline that finds closeChan closed inside the critical section inserts
\* nothing, and the flush of a pass empties the table.
C16_TableEmptyBetweenPasses ==
  [][/\ (loopPc' \notin {"run", "disconnect"}) => requests' = EmptyTable
     /\ (loopPc' = "disconnect" /\ loopPc \notin {"run", "disconnect"}) =>
          requests' = EmptyTable
     /\ (sendDequeue /\ closeChan) => requests' = requests
     /\ loopFlush => requests' = EmptyTable]_vars

\* the flush of a pass has emptied a table that held a request, and the
\* loop dials again
C16_Witness ==
  /\ loopPc = "dial"
  /\ nConn >= 1
  /\ requests = EmptyTable
  /\ \E r \in UserOps : ErrConnectionClosed \in SeqSet(outs[r])

\* C17: the connection object never holds more than one socket that is not
\* closed: the socket of a pass is closed before the loop dials again, and
\* before it terminates, whatever the outcome of the handshake.
C17_SocketsClosed ==
  /\ leaked = 0
  /\ loopPc \in {"connect", "dial", "sleep", "finalFlush", "finalInvalidate", "done"} =>
       conn \in {"none", "closed"}

\* C18: CreateProtectedEphemeralSequential issues at most three creates; a
\* create answered nil ends the call with the created path, one answered
\* ErrSessionExpired is followed by the next attempt without a listing, one
\* answered ErrConnectionClosed by a listing, any other error ends the call
\* with that error; a listing ends the call with its error, or with the
\* path of the child that carries this call's guid, or, when there is no
\* such child, is followed by the next attempt; the call never makes a
\* second node with its guid.
C18_CreateProtected ==
  [][/\ cpCreates' <= 3
     /\ Cardinality(cpNodes') <= 1
     /\ cpCreate =>
          CASE cpErr' = Nil ->
                 /\ cpPc' = "returned" /\ cpRet'.err = Nil
                 /\ LastPart(cpRet'.path) \in cpNodes'
            [] cpErr' = ErrSessionExpired ->
                 /\ cpI' = cpI + 1
                 /\ \/ cpPc' = "create"
                    \/ cpI' = 3 /\ cpPc' = "returned" /\ cpRet'.err = cpErr'
            [] cpErr' = ErrConnectionClosed -> cpPc' = "list"
            [] OTHER ->
                 cpPc' = "returned" /\ cpRet' = [path |-> <<>>, err |-> cpErr']
     /\ cpList =>
          \/ cpPc' = "returned" /\ cpRet'.err # Nil /\ cpRet'.path = <<>>
          \/ /\ cpPc' = "returned" /\ cpRet'.err = Nil
             /\ LastPart(cpRet'.path) \in cpNodes
          \/ cpPc' = "create" /\ cpNodes = {} /\ cpI' = cpI + 1]_vars

\* C19: the send pipeline never inserts a request into the pending table
\* under an xid that has an entry, and the requests of the table are
\* pairwise distinct: no entry is overwritten.
C19_DistinctXidsInTable ==
  [][(sendDequeue /\ ~closeChan) =>
       /\ opXid[Head(sendChan)] \notin DOMAIN requests
       /\ Cardinality(DOMAIN requests') = Cardinality(DOMAIN requests) + 1]_vars

\* C20: the loss of the TCP connection never ends the process: log.Fatal is
\* never reached, whatever request was in flight at the loss.
C20_LossNeverFatal == ~fatal

====
